---- MODULE Spec2Model ----
(***************************************************************************)
(* Model of src/reinforce/config.py: the process-wide REINFORCEConfig      *)
(* instance, the GPU-tier selector get_config_for_gpu that overrides it in *)
(* place, and the checkpoint locator get_latest_checkpoint.                *)
(*                                                                         *)
(* Python strings are sequences of one-character strings, so that          *)
(* str.lower, re.match and int() are computed rather than assumed.         *)
(* Objects live in a heap (reference -> fields) so that "the same          *)
(* instance" is a statement about references.                              *)
(***************************************************************************)
EXTENDS Integers, Sequences, FiniteSets, TLC

VARIABLES
    heap,            \* reference -> fields of every REINFORCEConfig object
    returned,        \* reference returned by the last get_config_for_gpu call
    args,            \* arguments and accelerator state of the last selector call
    before,          \* fields of REINFORCE_CONFIG when the last selector call began
    repeat,          \* the last selector call had the arguments of the one before it
    last_override,   \* branch of the most recent call that assigned a profile
    fs,              \* the file system seen by the locator
    ckpt_call        \* the locator's last call: its argument, local list and outcome

vars == <<heap, returned, args, before, repeat, last_override, fs, ckpt_call>>

gpu_vars == <<heap, returned, args, before, repeat, last_override>>
ckpt_vars == <<fs, ckpt_call>>

----------------------------------------------------------------------------
(* Strings *)

Str_a100 == <<"a", "1", "0", "0">>
Str_auto == <<"a", "u", "t", "o">>

UpperChars ==
    <<"A", "B", "C", "D", "E", "F", "G", "H", "I", "J", "K", "L", "M",
      "N", "O", "P", "Q", "R", "S", "T", "U", "V", "W", "X", "Y", "Z">>

LowerChars ==
    <<"a", "b", "c", "d", "e", "f", "g", "h", "i", "j", "k", "l", "m",
      "n", "o", "p", "q", "r", "s", "t", "u", "v", "w", "x", "y", "z">>

\* The lowercase form of every uppercase letter.
LowerCaseOf ==
    [c \in {UpperChars[i] : i \in 1..Len(UpperChars)} |->
        LowerChars[CHOOSE i \in 1..Len(UpperChars) : UpperChars[i] = c]]

LowerChar(c) == IF c \in DOMAIN LowerCaseOf THEN LowerCaseOf[c] ELSE c

\* Variant: the tier compared as written, without folding its case.
LowerOmitted(s) == s

\* str.lower(): every cased character replaced by its lowercase form.
Lower(s) == [i \in 1..Len(s) |-> LowerChar(s[i])]

----------------------------------------------------------------------------
(* The configuration record *)

\* The dataclass defaults.  Floats are kept as their literals.
REINFORCEConfig ==
    [ learning_rate               |-> "3e-4",
      batch_size                  |-> 1,
      mini_batch_size             |-> 1,
      gradient_accumulation_steps |-> 1,
      steps                       |-> 100,
      per_device_train_batch_size |-> 64,
      gradient_checkpointing      |-> TRUE,
      fp16                        |-> TRUE,
      bf16                        |-> FALSE,
      resume_from_checkpoint      |-> FALSE,
      checkpoint_dir              |-> "./reinforce_output",
      use_kl_penalty              |-> TRUE,
      kl_beta                     |-> "0.1",
      use_advantage               |-> TRUE,
      zero_thinking_gradients     |-> TRUE ]

\* The module-level name REINFORCE_CONFIG is bound once to one object.
REINFORCE_CONFIG == "REINFORCE_CONFIG#0"

A100_CONFIG ==
    [ per_device_train_batch_size |-> 4,
      mini_batch_size             |-> 4,
      gradient_accumulation_steps |-> 2,
      gradient_checkpointing      |-> TRUE,
      fp16                        |-> FALSE,
      bf16                        |-> TRUE ]

----------------------------------------------------------------------------
(* get_config_for_gpu *)

\* Variant: the thresholds compared with > instead of >=.
MemoryGbAbove(total_memory, t) ==
    \/ total_memory.gb > t
    \/ total_memory.gb = t /\ total_memory.rem > 0

\* total_memory is a byte count q * 10^9 + r, 0 <= r < 10^9, kept as [gb |-> q,
\* rem |-> r] because 70 * 10^9 does not fit a 32-bit integer.  The code
\* compares total_memory / 1e9 with the whole numbers 70 and 20; the quotient
\* is at least a whole number t exactly when q >= t.
MemoryGbAtLeast(total_memory, t) == total_memory.gb >= t

HighMemoryGb == 70
MidMemoryGb == 20

\* Variant: the tag "mid" selects the mid profile.
BranchWithMidTag(gpu_type, accel) ==
    IF Lower(gpu_type) = Str_a100 THEN "a100"
    ELSE IF Lower(gpu_type) = <<"m", "i", "d">> THEN "auto_mid"
    ELSE IF Lower(gpu_type) = Str_auto THEN
        IF accel.available THEN
            IF accel.total_memory.gb >= 70 THEN "auto_high"
            ELSE IF accel.total_memory.gb >= 20 THEN "auto_mid"
            ELSE "auto_low"
        ELSE "none"
    ELSE "none"

\* The control flow of the selector: which block of assignments runs.
Branch(gpu_type, accel) ==
    IF Lower(gpu_type) = Str_a100 THEN "a100"
    ELSE IF Lower(gpu_type) = Str_auto THEN
        IF accel.available THEN
            IF MemoryGbAtLeast(accel.total_memory, HighMemoryGb) THEN "auto_high"
            ELSE IF MemoryGbAtLeast(accel.total_memory, MidMemoryGb) THEN "auto_mid"
            ELSE "auto_low"
        ELSE "none"
    ELSE "none"

\* Variant: the A100 block also assigns batch_size.
A100BlockAlsoBatchSize(c) ==
    [c EXCEPT !.per_device_train_batch_size = A100_CONFIG.per_device_train_batch_size,
              !.batch_size = A100_CONFIG.per_device_train_batch_size,
              !.mini_batch_size = A100_CONFIG.mini_batch_size,
              !.gradient_accumulation_steps = A100_CONFIG.gradient_accumulation_steps,
              !.gradient_checkpointing = A100_CONFIG.gradient_checkpointing,
              !.fp16 = A100_CONFIG.fp16,
              !.bf16 = A100_CONFIG.bf16]

A100Block(c) ==
    [c EXCEPT !.per_device_train_batch_size = A100_CONFIG.per_device_train_batch_size,
              !.mini_batch_size = A100_CONFIG.mini_batch_size,
              !.gradient_accumulation_steps = A100_CONFIG.gradient_accumulation_steps,
              !.gradient_checkpointing = A100_CONFIG.gradient_checkpointing,
              !.fp16 = A100_CONFIG.fp16,
              !.bf16 = A100_CONFIG.bf16]

\* Variant: the high-memory block leaves fp16 as it was.
AutoHighBlockKeepsFp16(c) ==
    [c EXCEPT !.per_device_train_batch_size = A100_CONFIG.per_device_train_batch_size,
              !.mini_batch_size = A100_CONFIG.mini_batch_size,
              !.gradient_accumulation_steps = A100_CONFIG.gradient_accumulation_steps,
              !.gradient_checkpointing = A100_CONFIG.gradient_checkpointing,
              !.bf16 = A100_CONFIG.bf16]

AutoHighBlock(c) ==
    [c EXCEPT !.per_device_train_batch_size = A100_CONFIG.per_device_train_batch_size,
              !.mini_batch_size = A100_CONFIG.mini_batch_size,
              !.gradient_accumulation_steps = A100_CONFIG.gradient_accumulation_steps,
              !.gradient_checkpointing = A100_CONFIG.gradient_checkpointing,
              !.fp16 = A100_CONFIG.fp16,
              !.bf16 = A100_CONFIG.bf16]

\* Variant: the mid block scales the current batch size instead of setting it.
AutoMidBlockScaled(c) ==
    [c EXCEPT !.per_device_train_batch_size = c.per_device_train_batch_size \div 16,
              !.mini_batch_size = 1,
              !.gradient_accumulation_steps = 4,
              !.gradient_checkpointing = TRUE,
              !.fp16 = FALSE,
              !.bf16 = TRUE]

AutoMidBlock(c) ==
    [c EXCEPT !.per_device_train_batch_size = 4,
              !.mini_batch_size = 1,
              !.gradient_accumulation_steps = 4,
              !.gradient_checkpointing = TRUE,
              !.fp16 = FALSE,
              !.bf16 = TRUE]

AutoLowBlock(c) ==
    [c EXCEPT !.per_device_train_batch_size = 2,
              !.mini_batch_size = 1,
              !.gradient_accumulation_steps = 8,
              !.gradient_checkpointing = TRUE,
              !.fp16 = FALSE,
              !.bf16 = TRUE]

\* The fields of the object `config` is bound to when the function returns.
Overridden(c, gpu_type, accel) ==
    LET b == Branch(gpu_type, accel) IN
    CASE b = "a100"      -> A100Block(c)
      [] b = "auto_high" -> AutoHighBlock(c)
      [] b = "auto_mid"  -> AutoMidBlock(c)
      [] b = "auto_low"  -> AutoLowBlock(c)
      [] OTHER           -> c

\* Variant: the function works on a copy of the shared object.
CopiedConfig == "REINFORCE_CONFIG#copy"

\* config = REINFORCE_CONFIG binds the local name to the shared object.
BoundConfig == REINFORCE_CONFIG

NoCall == [gpu_type |-> <<>>, accel |-> [available |-> FALSE, total_memory |-> [gb |-> 0, rem |-> 0]], made |-> FALSE]

get_config_for_gpu(gpu_type, accel) ==
    LET config == BoundConfig
        call == [gpu_type |-> gpu_type, accel |-> accel, made |-> TRUE]
        b == Branch(gpu_type, accel)
    IN  /\ heap' = (config :> Overridden(heap[REINFORCE_CONFIG], gpu_type, accel)) @@ heap
        /\ returned' = config
        /\ args' = call
        /\ before' = heap[REINFORCE_CONFIG]
        /\ repeat' = (args = call)
        /\ last_override' = IF b = "none" THEN last_override ELSE b
        /\ UNCHANGED ckpt_vars

----------------------------------------------------------------------------
(* get_latest_checkpoint *)

Str_checkpoint_dash == <<"c", "h", "e", "c", "k", "p", "o", "i", "n", "t", "-">>

DigitChars == <<"0", "1", "2", "3", "4", "5", "6", "7", "8", "9">>

\* The value of every decimal digit.
DigitValueOf ==
    [c \in {DigitChars[i] : i \in 1..Len(DigitChars)} |->
        (CHOOSE i \in 1..Len(DigitChars) : DigitChars[i] = c) - 1]

IsDigit(c) == c \in DOMAIN DigitValueOf

DigitValue(c) == DigitValueOf[c]

\* Length of the longest run of digits of s that starts at position i: \d+ is
\* greedy and nothing follows it in the pattern, so it takes the whole run.
RECURSIVE DigitRun(_, _)
DigitRun(s, i) ==
    IF i <= Len(s) /\ IsDigit(s[i]) THEN 1 + DigitRun(s, i + 1) ELSE 0

\* Variant: the pattern must match the whole name (re.fullmatch).
PatternFullMatch(item) ==
    LET n == Len(Str_checkpoint_dash)
        run == DigitRun(item, n + 1)
    IN  IF /\ Len(item) = n + run
           /\ SubSeq(item, 1, n) = Str_checkpoint_dash
           /\ run >= 1
        THEN [matched |-> TRUE, group1 |-> SubSeq(item, n + 1, n + run)]
        ELSE [matched |-> FALSE, group1 |-> <<>>]

\* checkpoint_pattern.match(item): re.match anchors at the start of the string
\* and not at its end.
PatternMatch(item) ==
    LET n == Len(Str_checkpoint_dash)
        run == DigitRun(item, n + 1)
    IN  IF /\ Len(item) >= n
           /\ SubSeq(item, 1, n) = Str_checkpoint_dash
           /\ run >= 1
        THEN [matched |-> TRUE, group1 |-> SubSeq(item, n + 1, n + run)]
        ELSE [matched |-> FALSE, group1 |-> <<>>]

\* int(match.group(1)): base ten, leading zeros allowed.
RECURSIVE ParseInt(_)
ParseInt(digits) ==
    IF digits = <<>> THEN 0
    ELSE 10 * ParseInt(SubSeq(digits, 1, Len(digits) - 1))
         + DigitValue(digits[Len(digits)])

\* os.path.join(checkpoint_dir, item) on POSIX.
PathJoin(a, b) ==
    IF b # <<>> /\ b[1] = "/" THEN b
    ELSE IF a = <<>> \/ a[Len(a)] = "/" THEN a \o b
    ELSE a \o <<"/">> \o b

\* The file system holds one path, RootPath, a directory or a plain file;
\* every other path is absent.  A trailing slash resolves only to a directory.
RootPath == <<"o", "u", "t">>
RootPathSlash == <<"o", "u", "t", "/">>
AbsentPath == <<"n", "o">>

PathExists(path) ==
    \/ path = RootPath
    \/ path = RootPathSlash /\ fs.kind = "dir"

\* Variant: entries are not tested for being directories.
IsDirOmitted(entry) == TRUE

\* os.path.isdir(item_path) for an entry of the listing.
IsDir(entry) == entry.isdir

\* The for loop: the (step_num, item_path) pairs in listing order.
Checkpoints(checkpoint_dir, listing) ==
    LET kept == SelectSeq(listing,
                          LAMBDA e : IsDir(e) /\ PatternMatch(e.name).matched)
    IN  [i \in 1..Len(kept) |->
            <<ParseInt(PatternMatch(kept[i].name).group1),
              PathJoin(checkpoint_dir, kept[i].name)>>]

\* Variant: min in place of max.
MinByStep(checkpoints) ==
    checkpoints[CHOOSE i \in 1..Len(checkpoints) :
                    /\ \A j \in 1..Len(checkpoints) : checkpoints[j][1] >= checkpoints[i][1]
                    /\ \A j \in 1..(i - 1) : checkpoints[j][1] > checkpoints[i][1]]

\* max(checkpoints, key=lambda x: x[0]): the first item whose key is largest.
MaxByStep(checkpoints) ==
    checkpoints[CHOOSE i \in 1..Len(checkpoints) :
                    /\ \A j \in 1..Len(checkpoints) : checkpoints[j][1] <= checkpoints[i][1]
                    /\ \A j \in 1..(i - 1) : checkpoints[j][1] < checkpoints[i][1]]

NoCkptCall ==
    [made |-> FALSE, checkpoint_dir |-> <<>>, checkpoints |-> <<>>,
     outcome |-> "none", path |-> <<>>]

get_latest_checkpoint(checkpoint_dir) ==
    LET checkpoints == Checkpoints(checkpoint_dir, fs.listing)
        call == [NoCkptCall EXCEPT !.made = TRUE, !.checkpoint_dir = checkpoint_dir]
    IN  /\ ckpt_call' =
            IF ~PathExists(checkpoint_dir)
            THEN [call EXCEPT !.outcome = "None"]
            ELSE IF fs.kind # "dir"
            THEN [call EXCEPT !.outcome = "NotADirectoryError"]
            ELSE IF checkpoints = <<>>
            THEN [call EXCEPT !.outcome = "None", !.checkpoints = checkpoints]
            ELSE [call EXCEPT !.outcome = "path", !.checkpoints = checkpoints,
                              !.path = MaxByStep(checkpoints)[2]]
        /\ UNCHANGED <<fs>>
        /\ UNCHANGED gpu_vars

----------------------------------------------------------------------------
(* Inputs *)

\* Tier strings passed as gpu_type.
Tiers ==
    { <<"a", "1", "0", "0">>,
      <<"A", "1", "0", "0">>,
      <<"a", "u", "t", "o">>,
      <<"A", "u", "t", "o">>,
      <<"A", "U", "T", "O">>,
      <<"t", "p", "u", "-", "v", "4">>,
      <<"m", "i", "d">>,
      <<"l", "o", "w">>,
      <<"a", "1", "0", "0", " ">>,
      <<>> }

\* Accelerator states: none, or device 0 with a total memory around the two
\* thresholds.
Memories ==
    { [gb |-> 8,  rem |-> 0],
      [gb |-> 19, rem |-> 999999999],
      [gb |-> 20, rem |-> 0],
      [gb |-> 69, rem |-> 999999999],
      [gb |-> 70, rem |-> 0],
      [gb |-> 80, rem |-> 1] }

NoAccelerator == [available |-> FALSE, total_memory |-> [gb |-> 0, rem |-> 0]]

Accels ==
    {NoAccelerator} \cup {[available |-> TRUE, total_memory |-> m] : m \in Memories}

GovernedFields ==
    { "per_device_train_batch_size", "mini_batch_size",
      "gradient_accumulation_steps", "gradient_checkpointing", "fp16", "bf16" }

OtherFields == DOMAIN REINFORCEConfig \ GovernedFields

\* A second value for every field the selector does not assign.
OtherValues ==
    [ learning_rate          |-> "1e-5",
      batch_size             |-> 16,
      steps                  |-> 7,
      resume_from_checkpoint |-> TRUE,
      checkpoint_dir         |-> "/tmp/run",
      use_kl_penalty         |-> FALSE,
      kl_beta                |-> "0.5",
      use_advantage          |-> FALSE,
      zero_thinking_gradients |-> FALSE ]

\* Configurations a caller may have built before the selector runs: every mix
\* of the governed fields with the other fields all at their defaults or all
\* changed, and the defaults with one other field changed.
WithGoverned(c, z, gc, h, b) ==
    [c EXCEPT !.per_device_train_batch_size = z.per_device_train_batch_size,
              !.mini_batch_size = z.mini_batch_size,
              !.gradient_accumulation_steps = z.gradient_accumulation_steps,
              !.gradient_checkpointing = gc,
              !.fp16 = h,
              !.bf16 = b]

AllOthersChanged ==
    [f \in DOMAIN REINFORCEConfig |->
        IF f \in OtherFields THEN OtherValues[f] ELSE REINFORCEConfig[f]]

PriorSizes ==
    { [per_device_train_batch_size |-> 64, mini_batch_size |-> 1,
       gradient_accumulation_steps |-> 1],
      [per_device_train_batch_size |-> 7, mini_batch_size |-> 3,
       gradient_accumulation_steps |-> 5] }

PriorConfigs ==
    { WithGoverned(c, z, gc, h, b) :
        c \in {REINFORCEConfig, AllOthersChanged}, z \in PriorSizes,
        gc \in BOOLEAN, h \in BOOLEAN, b \in BOOLEAN }
    \cup {[REINFORCEConfig EXCEPT ![f] = OtherValues[f]] : f \in OtherFields}

\* Entry names of the checkpoint directory.
Ckpt(suffix) == Str_checkpoint_dash \o suffix

Names ==
    { Ckpt(<<"3">>),
      Ckpt(<<"1", "0">>),
      Ckpt(<<"2">>),
      Ckpt(<<"0", "1", "0">>),
      Ckpt(<<"1", "0", "-", "e", "x", "t", "r", "a">>),
      Ckpt(<<"1", "2", "3", "a", "b", "c">>),
      Ckpt(<<>>),
      <<"o", "l", "d", "-">> \o Ckpt(<<"5">>),
      <<"l", "o", "g", "s">> }

MaxEntries == 3

Entries == [name : Names, isdir : BOOLEAN]

\* os.listdir: the entries in an arbitrary order, no name twice.
Listings ==
    { l \in UNION {[1..n -> Entries] : n \in 0..MaxEntries} :
        \A i, j \in 1..Len(l) : i # j => l[i].name # l[j].name }

FileSystems ==
    {[kind |-> "dir", listing |-> l] : l \in Listings}
    \cup {[kind |-> "file", listing |-> <<>>]}

CheckpointDirs == {RootPath, RootPathSlash, AbsentPath}

----------------------------------------------------------------------------
(* Specifications *)

InitCalls ==
    /\ returned = "None"
    /\ args = NoCall
    /\ before = heap[REINFORCE_CONFIG]
    /\ repeat = FALSE
    /\ last_override = "none"
    /\ ckpt_call = NoCkptCall

\* The module as imported: REINFORCE_CONFIG = REINFORCEConfig().
Init ==
    /\ heap = (REINFORCE_CONFIG :> REINFORCEConfig)
    /\ fs = [kind |-> "dir", listing |-> <<>>]
    /\ InitCalls

Next == \E gpu_type \in Tiers, accel \in Accels : get_config_for_gpu(gpu_type, accel)

Spec == Init /\ [][Next]_vars

\* The selector run on a configuration whose fields hold any prior values.
InitPrior ==
    /\ heap \in {(REINFORCE_CONFIG :> c) : c \in PriorConfigs}
    /\ fs = [kind |-> "dir", listing |-> <<>>]
    /\ InitCalls

SpecPrior == InitPrior /\ [][Next]_vars

\* The locator run on any file system.
InitCkpt ==
    /\ heap = (REINFORCE_CONFIG :> REINFORCEConfig)
    /\ fs \in FileSystems
    /\ InitCalls

NextCkpt == \E checkpoint_dir \in CheckpointDirs : get_latest_checkpoint(checkpoint_dir)

SpecCkpt == InitCkpt /\ [][NextCkpt]_vars

----------------------------------------------------------------------------
(* Properties of get_config_for_gpu *)

\* The fields of the shared instance.
Cfg == heap[REINFORCE_CONFIG]

\* "a100" and "auto" in any letter casing, spelled out.
IsA100Tier(t) ==
    /\ Len(t) = 4
    /\ t[1] \in {"a", "A"}
    /\ t[2] = "1"
    /\ t[3] = "0"
    /\ t[4] = "0"

IsAutoTier(t) ==
    /\ Len(t) = 4
    /\ t[1] \in {"a", "A"}
    /\ t[2] \in {"u", "U"}
    /\ t[3] \in {"t", "T"}
    /\ t[4] \in {"o", "O"}

\* The six governed fields of c hold: per-device batch size pd, mini-batch size
\* mb, gradient accumulation ga, checkpointing on, fp16 h, bf16 b.
HoldsProfile(c, pd, mb, ga, h, b) ==
    /\ c.per_device_train_batch_size = pd
    /\ c.mini_batch_size = mb
    /\ c.gradient_accumulation_steps = ga
    /\ c.gradient_checkpointing = TRUE
    /\ c.fp16 = h
    /\ c.bf16 = b

\* C3: after a call whose tier is "a100" in any letter casing, the
\* configuration has per-device batch size 4, mini-batch size 4, gradient
\* accumulation 2, gradient checkpointing on, fp16 false and bf16 true,
\* whatever the fields held before the call.
C3_A100Profile ==
    (args.made /\ IsA100Tier(args.gpu_type))
        => HoldsProfile(Cfg, 4, 4, 2, FALSE, TRUE)

C3_Witness ==
    /\ args.made
    /\ args.gpu_type = <<"A", "1", "0", "0">>
    /\ before.per_device_train_batch_size = 7
    /\ before.mini_batch_size = 3
    /\ before.gradient_checkpointing = FALSE
    /\ before.fp16 = TRUE
    /\ before.bf16 = FALSE
    /\ HoldsProfile(Cfg, 4, 4, 2, FALSE, TRUE)

\* C4: after a call whose tier is "auto", the accelerator state alone selects
\* the profile: none available leaves the configuration as it was; at least
\* 70 GB gives (4, 4, 2); at least 20 GB and less than 70 GB gives (4, 1, 4);
\* less than 20 GB gives (2, 1, 8); each applied profile has checkpointing on,
\* fp16 false and bf16 true; exactly 20 GB and exactly 70 GB belong to the
\* higher tier.
C4_AutoProfile ==
    (args.made /\ IsAutoTier(args.gpu_type)) =>
        LET m == args.accel.total_memory IN
        /\ ~args.accel.available => Cfg = before
        /\ (args.accel.available /\ m.gb >= 70)
               => HoldsProfile(Cfg, 4, 4, 2, FALSE, TRUE)
        /\ (args.accel.available /\ m.gb >= 20 /\ m.gb < 70)
               => HoldsProfile(Cfg, 4, 1, 4, FALSE, TRUE)
        /\ (args.accel.available /\ m.gb < 20)
               => HoldsProfile(Cfg, 2, 1, 8, FALSE, TRUE)

C4_Witness ==
    /\ args.made
    /\ args.gpu_type = <<"A", "U", "T", "O">>
    /\ args.accel.available
    /\ args.accel.total_memory = [gb |-> 70, rem |-> 0]
    /\ before.per_device_train_batch_size = 7
    /\ before.bf16 = FALSE
    /\ HoldsProfile(Cfg, 4, 4, 2, FALSE, TRUE)

\* C5: after a call whose tier is neither "a100" nor "auto" in any casing, each
\* of the six governed fields has the value it had before the call, and the
\* call returned the configuration.
C5_UnknownTierNoOverride ==
    (args.made /\ ~IsA100Tier(args.gpu_type) /\ ~IsAutoTier(args.gpu_type)) =>
        /\ \A f \in GovernedFields : Cfg[f] = before[f]
        /\ returned \in DOMAIN heap
        /\ heap[returned] = before

C5_Witness ==
    /\ args.made
    /\ args.gpu_type = <<"m", "i", "d">>
    /\ args.accel.available
    /\ args.accel.total_memory.gb = 20
    /\ before.per_device_train_batch_size = 7
    /\ before.fp16 = TRUE
    /\ before.bf16 = TRUE
    /\ Cfg = before
    /\ returned = REINFORCE_CONFIG

\* C6: when a call repeats the tier and the accelerator state of the call
\* before it, every field after the second call equals its value after the
\* first call.
C6_Idempotent == repeat => Cfg = before

C6_Witness ==
    /\ repeat
    /\ IsAutoTier(args.gpu_type)
    /\ args.accel.available
    /\ args.accel.total_memory.gb = 8
    /\ Cfg.batch_size = 16
    /\ HoldsProfile(Cfg, 2, 1, 8, FALSE, TRUE)

\* C7: every call leaves each field outside the six governed ones with the
\* value it had before the call.
C7_OtherFieldsUntouched ==
    args.made =>
        \A f \in { "batch_size", "learning_rate", "steps", "checkpoint_dir",
                   "resume_from_checkpoint", "use_kl_penalty", "kl_beta",
                   "use_advantage", "zero_thinking_gradients" } :
            Cfg[f] = before[f]

C7_Witness ==
    /\ args.made
    /\ IsA100Tier(args.gpu_type)
    /\ before.per_device_train_batch_size = 7
    /\ before.batch_size = 16
    /\ before.learning_rate = "1e-5"
    /\ before.use_kl_penalty = FALSE
    /\ Cfg.per_device_train_batch_size = 4
    /\ Cfg.batch_size = 16
    /\ Cfg.learning_rate = "1e-5"
    /\ Cfg.use_kl_penalty = FALSE

\* The profile a branch of the selector is said to leave behind; "none" is the
\* declared defaults.
HoldsProfileOf(c, branch) ==
    CASE branch = "none"      -> HoldsProfile(c, 64, 1, 1, TRUE, FALSE)
      [] branch = "a100"      -> HoldsProfile(c, 4, 4, 2, FALSE, TRUE)
      [] branch = "auto_high" -> HoldsProfile(c, 4, 4, 2, FALSE, TRUE)
      [] branch = "auto_mid"  -> HoldsProfile(c, 4, 1, 4, FALSE, TRUE)
      [] branch = "auto_low"  -> HoldsProfile(c, 2, 1, 8, FALSE, TRUE)

\* The last call applied no override: an unrecognized tier, or "auto" with no
\* accelerator.
NoOverrideCall ==
    /\ args.made
    /\ \/ ~IsA100Tier(args.gpu_type) /\ ~IsAutoTier(args.gpu_type)
       \/ IsAutoTier(args.gpu_type) /\ ~args.accel.available

\* C9: there is one configuration object; every call returns that object; its
\* governed fields hold the profile of the most recent call that applied an
\* override, or the defaults if none did; and a call that applies no override
\* returns those persisted values.
C9_SharedInstancePersists ==
    /\ DOMAIN heap = {REINFORCE_CONFIG}
    /\ args.made => returned = REINFORCE_CONFIG
    /\ HoldsProfileOf(Cfg, last_override)
    /\ NoOverrideCall =>
           /\ heap[returned] = before
           /\ HoldsProfileOf(heap[returned], last_override)

C9_Witness ==
    /\ last_override = "auto_low"
    /\ args.made
    /\ args.gpu_type = <<"t", "p", "u", "-", "v", "4">>
    /\ returned = REINFORCE_CONFIG
    /\ heap[returned].per_device_train_batch_size = 2
    /\ heap[returned].gradient_accumulation_steps = 8
    /\ heap[returned].bf16 = TRUE

\* C10: from the default configuration, in every reachable state exactly one
\* of fp16 and bf16 is true and gradient_checkpointing is true; and once a
\* call has applied a profile, fp16 is false and bf16 is true.
C10_PrecisionExclusive ==
    /\ Cfg.fp16 # Cfg.bf16
    /\ Cfg.gradient_checkpointing = TRUE
    /\ last_override # "none" => (Cfg.fp16 = FALSE /\ Cfg.bf16 = TRUE)

C10_Witness ==
    /\ last_override = "auto_mid"
    /\ NoOverrideCall
    /\ Cfg.fp16 = FALSE
    /\ Cfg.bf16 = TRUE
    /\ Cfg.gradient_checkpointing = TRUE

----------------------------------------------------------------------------
(* Properties of get_latest_checkpoint *)

\* The name begins with "checkpoint-" followed by at least k digits.
HasPrefixAndDigits(name, k) ==
    /\ Len(name) >= 11 + k
    /\ SubSeq(name, 1, 11) = <<"c", "h", "e", "c", "k", "p", "o", "i", "n", "t", "-">>
    /\ \A i \in 12..(11 + k) :
           name[i] \in {"0", "1", "2", "3", "4", "5", "6", "7", "8", "9"}

\* The name matches checkpoint-<digits> at its start.
NameMatches(name) == HasPrefixAndDigits(name, 1)

\* The number of digits in the full leading run after "checkpoint-".
LeadingDigits(name) ==
    CHOOSE k \in 1..Len(name) :
        /\ HasPrefixAndDigits(name, k)
        /\ ~HasPrefixAndDigits(name, k + 1)

DecimalDigit ==
    [c \in {"0", "1", "2", "3", "4", "5", "6", "7", "8", "9"} |->
        CASE c = "0" -> 0 [] c = "1" -> 1 [] c = "2" -> 2 [] c = "3" -> 3
          [] c = "4" -> 4 [] c = "5" -> 5 [] c = "6" -> 6 [] c = "7" -> 7
          [] c = "8" -> 8 [] c = "9" -> 9]

RECURSIVE PowerOfTen(_)
PowerOfTen(n) == IF n = 0 THEN 1 ELSE 10 * PowerOfTen(n - 1)

RECURSIVE PlaceValueSum(_, _, _)
PlaceValueSum(name, k, i) ==
    IF i > k THEN 0
    ELSE DecimalDigit[name[11 + i]] * PowerOfTen(k - i) + PlaceValueSum(name, k, i + 1)

\* The step number of a matching name: its leading digit run read in base ten.
StepOf(name) == PlaceValueSum(name, LeadingDigits(name), 1)

\* The path of the entry `name` of the directory.
SubdirPath(name) == <<"o", "u", "t", "/">> \o name

ListedEntries == {fs.listing[i] : i \in 1..Len(fs.listing)}

\* The immediate subdirectories whose name matches.
MatchingSubdirs == {e \in ListedEntries : e.isdir /\ NameMatches(e.name)}

\* The last call was given the path of the existing directory.
CalledOnDirectory ==
    /\ ckpt_call.made
    /\ ckpt_call.checkpoint_dir \in {<<"o", "u", "t">>, <<"o", "u", "t", "/">>}
    /\ fs.kind = "dir"

\* C1: when the directory has at least one matching subdirectory, the result
\* is the path of a matching subdirectory whose step number is at least the
\* step number of every matching subdirectory, compared as numbers.
C1_ReturnsMaxStep ==
    (CalledOnDirectory /\ MatchingSubdirs # {}) =>
        /\ ckpt_call.outcome = "path"
        /\ \E e \in MatchingSubdirs :
               /\ ckpt_call.path = SubdirPath(e.name)
               /\ \A o \in MatchingSubdirs : StepOf(o.name) <= StepOf(e.name)

C1_Witness ==
    /\ ckpt_call.made
    /\ ckpt_call.checkpoint_dir = <<"o", "u", "t">>
    /\ fs.kind = "dir"
    /\ fs.listing = << [name |-> Ckpt(<<"3">>), isdir |-> TRUE],
                       [name |-> Ckpt(<<"1", "0">>), isdir |-> TRUE],
                       [name |-> Ckpt(<<"2">>), isdir |-> TRUE] >>
    /\ ckpt_call.outcome = "path"
    /\ ckpt_call.path = <<"o", "u", "t", "/">> \o Ckpt(<<"1", "0">>)

\* C2: the call returns None, and does not raise, exactly when the path does
\* not exist or it is a directory with no entry that is both a directory and
\* has a matching name.
C2_NoneExactlyWhenNoCheckpoint ==
    ckpt_call.made =>
        ( ckpt_call.outcome = "None"
          <=> \/ ~PathExists(ckpt_call.checkpoint_dir)
              \/ fs.kind = "dir" /\ MatchingSubdirs = {} )

C2_Witness ==
    /\ CalledOnDirectory
    /\ Len(fs.listing) >= 2
    /\ \E e \in ListedEntries : NameMatches(e.name) /\ ~e.isdir
    /\ \E e \in ListedEntries : ~NameMatches(e.name) /\ e.isdir
    /\ ckpt_call.outcome = "None"

\* The pairs the call collected.
Collected == {ckpt_call.checkpoints[i] : i \in 1..Len(ckpt_call.checkpoints)}

IsSubdir(name) == [name |-> name, isdir |-> TRUE] \in ListedEntries

\* C8: the pattern is matched as a prefix anchored at the start of the name:
\* every subdirectory whose name begins with checkpoint-<digits> contributes
\* the pair of its full leading digit run and its path, whatever follows the
\* digits (checkpoint-10-extra gives 10, checkpoint-123abc gives 123), and a
\* subdirectory whose name has the pattern only later (old-checkpoint-5) or
\* has no digit after the hyphen (checkpoint-) contributes nothing.
C8_PrefixMatch ==
    CalledOnDirectory =>
        /\ \A e \in ListedEntries :
               IF e.isdir /\ NameMatches(e.name)
               THEN <<StepOf(e.name), SubdirPath(e.name)>> \in Collected
               ELSE \A p \in Collected : p[2] # SubdirPath(e.name)
        /\ IsSubdir(Ckpt(<<"1", "0", "-", "e", "x", "t", "r", "a">>))
               => <<10, SubdirPath(Ckpt(<<"1", "0", "-", "e", "x", "t", "r", "a">>))>>
                      \in Collected
        /\ IsSubdir(Ckpt(<<"1", "2", "3", "a", "b", "c">>))
               => <<123, SubdirPath(Ckpt(<<"1", "2", "3", "a", "b", "c">>))>>
                      \in Collected
        /\ \A p \in Collected :
               /\ p[2] # SubdirPath(<<"o", "l", "d", "-">> \o Ckpt(<<"5">>))
               /\ p[2] # SubdirPath(Ckpt(<<>>))

C8_Witness ==
    /\ CalledOnDirectory
    /\ IsSubdir(Ckpt(<<"1", "0", "-", "e", "x", "t", "r", "a">>))
    /\ IsSubdir(Ckpt(<<"3">>))
    /\ IsSubdir(<<"o", "l", "d", "-">> \o Ckpt(<<"5">>))
    /\ ckpt_call.outcome = "path"
    /\ ckpt_call.path = SubdirPath(Ckpt(<<"1", "0", "-", "e", "x", "t", "r", "a">>))

====
